---- MODULE Spec2Model ----
(***************************************************************************)
(* Model of MetalMarketAnalyzer (src/metal_analyzer.py): the indicator     *)
(* calculator, the trend shape analyzer, the signal fusion engine and the  *)
(* per-instrument pipeline analyze_metal.                                  *)
(*                                                                         *)
(* Numbers are exact rationals [kind |-> "num", num, den] with den > 0.    *)
(* Python floats also have nan and +/-inf (numpy division by zero), and a  *)
(* dictionary may hold a value that cannot be ordered (None).  The votes   *)
(* and directions of the source are Persian strings; the model writes them *)
(* in English: buy, sell, neutral, bullish, bearish, ranging, wait,        *)
(* unknown.                                                                *)
(***************************************************************************)
EXTENDS Integers, Sequences, FiniteSets, TLC

VARIABLES pc, metal, data, lib, indicators, trend_analysis, signal, report, calls

vars == <<pc, metal, data, lib, indicators, trend_analysis, signal, report, calls>>

----------------------------------------------------------------------------
(* Values held by the dictionaries.                                        *)

Rat(n, d) == [kind |-> "num", num |-> n, den |-> d]
Num(n) == Rat(n, 1)
NaN == [kind |-> "nan", num |-> 0, den |-> 1]
PosInf == [kind |-> "inf", num |-> 1, den |-> 1]
NegInf == [kind |-> "inf", num |-> -1, den |-> 1]
None == [kind |-> "none", num |-> 0, den |-> 1]

IsNone(a) == a.kind = "none"

\* a < b on floats: false as soon as one side is nan.
Lt(a, b) ==
    IF a.kind = "nan" \/ b.kind = "nan" THEN FALSE
    ELSE IF a.kind = "inf" /\ b.kind = "inf" THEN a.num < b.num
    ELSE IF a.kind = "inf" THEN a.num < 0
    ELSE IF b.kind = "inf" THEN b.num > 0
    ELSE a.num * b.den < b.num * a.den

Gt(a, b) == Lt(b, a)

\* a == b on floats.
EqV(a, b) ==
    IF a.kind = "nan" \/ b.kind = "nan" THEN FALSE
    ELSE IF a.kind = "inf" \/ b.kind = "inf" THEN a.kind = b.kind /\ a.num = b.num
    ELSE a.num * b.den = b.num * a.den

\* a - b on finite numbers.
Sub(a, b) == Rat(a.num * b.den - b.num * a.den, a.den * b.den)

\* a / b on numpy float64 scalars: a zero divisor gives nan or +/-inf and a
\* RuntimeWarning, never an exception.
Div(a, b) ==
    IF b.num = 0
    THEN IF a.num = 0 THEN NaN ELSE IF a.num > 0 THEN PosInf ELSE NegInf
    ELSE IF b.num > 0 THEN Rat(a.num * b.den, a.den * b.num)
    ELSE Rat(-(a.num * b.den), -(a.den * b.num))

\* dict.get(key, default)
Get(d, key, default) == IF key \in DOMAIN d THEN d[key] ELSE default

EmptyDict == [k \in {} |-> None]

----------------------------------------------------------------------------
(* get_signal_strength                                                     *)

Classifiers == {"RSI", "MA", "MACD", "Bollinger", "Trend"}

\* Variant: one rule fewer than the function evaluates.
total_indicators_four == 5 - 1

total_indicators == 5

\* A classifier's outcome: its vote, or "raise" when a comparison it
\* evaluates has an operand that cannot be ordered (TypeError).
rsi_signal(rsi) ==
    IF IsNone(rsi) THEN "raise"
    ELSE IF Lt(rsi, Num(30)) THEN "buy"
    ELSE IF Gt(rsi, Num(70)) THEN "sell"
    ELSE "neutral"

\* `and` evaluates its right operand only when the left one is true, so
\* current_price is compared only after sma_20 and sma_50 differ.
ma_signal(sma_20, sma_50, current_price) ==
    IF IsNone(sma_20) \/ IsNone(sma_50) THEN "raise"
    ELSE IF Gt(sma_20, sma_50)
         THEN IF IsNone(current_price) THEN "raise"
              ELSE IF Gt(current_price, sma_20) THEN "buy" ELSE "neutral"
    ELSE IF Lt(sma_20, sma_50)
         THEN IF IsNone(current_price) THEN "raise"
              ELSE IF Lt(current_price, sma_20) THEN "sell" ELSE "neutral"
    ELSE "neutral"

macd_signal(macd_hist) ==
    IF IsNone(macd_hist) THEN "raise"
    ELSE IF Gt(macd_hist, Num(0)) THEN "buy"
    ELSE IF Lt(macd_hist, Num(0)) THEN "sell"
    ELSE "neutral"

bb_signal(bb_position) ==
    IF IsNone(bb_position) THEN "raise"
    ELSE IF Lt(bb_position, Rat(2, 10)) THEN "buy"
    ELSE IF Gt(bb_position, Rat(8, 10)) THEN "sell"
    ELSE "neutral"

\* The float n/30 is above the float 0.1 exactly when n > 3 (3/30 rounds to
\* the same double as 0.1), so the rational comparison is the float one.
trend_signal(trend_strength) ==
    IF IsNone(trend_strength) THEN "raise"
    ELSE IF Gt(trend_strength, Rat(1, 10)) THEN "buy"
    ELSE IF Lt(trend_strength, Rat(-1, 10)) THEN "sell"
    ELSE "neutral"

\* Variant: every key read with the default 0.
DefaultZero(key) == Num(0)

\* The default each key is read with: indicators.get(key, default).
DefaultOf(key) ==
    CASE key = "rsi" -> Num(50)
      [] key = "bb_position" -> Rat(1, 2)
      [] OTHER -> Num(0)

Read(d, key) == Get(d, key, DefaultOf(key))

\* The five votes, each from the values read with their defaults.
Votes(ind, tr) ==
    [c \in Classifiers |->
        CASE c = "RSI" -> rsi_signal(Read(ind, "rsi"))
          [] c = "MA" -> ma_signal(Read(ind, "sma_20"), Read(ind, "sma_50"),
                                   Read(ind, "current_price"))
          [] c = "MACD" -> macd_signal(Read(ind, "macd_hist"))
          [] c = "Bollinger" -> bb_signal(Read(ind, "bb_position"))
          [] c = "Trend" -> trend_signal(Read(tr, "trend_strength"))]

\* confirmation_count += 1 in the buy and the sell branch of each block.
Increment(vote) == IF vote \in {"buy", "sell"} THEN 1 ELSE 0

\* Variant: the trend block does not count.
confirmation_count_without_trend(v) ==
    Increment(v["RSI"]) + Increment(v["MA"]) + Increment(v["MACD"])
        + Increment(v["Bollinger"])

confirmation_count(v) ==
    Increment(v["RSI"]) + Increment(v["MA"]) + Increment(v["MACD"])
        + Increment(v["Bollinger"]) + Increment(v["Trend"])

\* Variant: the confidence as the share of the rules that voted.
confidence_as_share(count) == count * 20

confidence(count) ==
    IF count = total_indicators THEN 80
    ELSE IF count = total_indicators - 1 THEN 70
    ELSE IF count = total_indicators - 2 THEN 60
    ELSE 50

buy_signals(v) == Cardinality({c \in Classifiers : v[c] = "buy"})

sell_signals(v) == Cardinality({c \in Classifiers : v[c] = "sell"})

\* Variant: a tie counts as bullish.
market_direction_tie_bullish(v) ==
    IF buy_signals(v) >= sell_signals(v) THEN "bullish"
    ELSE IF sell_signals(v) > buy_signals(v) THEN "bearish"
    ELSE "ranging"

market_direction(v) ==
    IF buy_signals(v) > sell_signals(v) THEN "bullish"
    ELSE IF sell_signals(v) > buy_signals(v) THEN "bearish"
    ELSE "ranging"

action(v) ==
    IF buy_signals(v) > sell_signals(v) THEN "buy"
    ELSE IF sell_signals(v) > buy_signals(v) THEN "sell"
    ELSE "wait"

\* What the except branch returns.
Sentinel ==
    [market_direction |-> "unknown", confidence |-> 0, action |-> "unknown",
     signals_detail |-> [c \in {} |-> "neutral"], propagates |-> FALSE]

\* Variant: only the market-direction block inside try, so that a raise in a
\* classifier leaves the function.
get_signal_strength_unguarded(ind, tr) ==
    LET v == Votes(ind, tr)
    IN  IF \E c \in Classifiers : v[c] = "raise"
        THEN [Sentinel EXCEPT !.propagates = TRUE]
        ELSE [market_direction |-> market_direction(v),
              confidence |-> confidence(confirmation_count(v)),
              action |-> action(v),
              signals_detail |-> v,
              propagates |-> FALSE]

\* The whole body runs inside try: a raise anywhere gives the sentinel.
\* propagates says whether an exception leaves the function.
get_signal_strength(ind, tr) ==
    LET v == Votes(ind, tr)
    IN  IF \E c \in Classifiers : v[c] = "raise"
        THEN Sentinel
        ELSE [market_direction |-> market_direction(v),
              confidence |-> confidence(confirmation_count(v)),
              action |-> action(v),
              signals_detail |-> v,
              propagates |-> FALSE]

NoSignal ==
    [market_direction |-> "none", confidence |-> 0, action |-> "none",
     signals_detail |-> [c \in {} |-> "neutral"], propagates |-> FALSE]

\* The text analyze_metal returns: which message it is, and the fields of the
\* fused signal it prints.
NoReport == [kind |-> "none", fields |-> [k \in {} |-> "none"]]

Message(kind) == [kind |-> kind, fields |-> [k \in {} |-> "none"]]

----------------------------------------------------------------------------
(* The price series.  A bar is [High, Low, Close]; get_metal_data returns  *)
(* a frame of bars, or None when the provider fails (ok = FALSE).          *)

TrendWindow == 16
TrendDenominator == 30

\* Variant: the trend analyzer asks only for the bars of its window.
MinTrendBarsWindow == TrendWindow

MinTrendBars == 20

\* Variant: the indicator calculator asks only for the bars of the trend
\* analyzer.
MinIndicatorBarsTrend == MinTrendBars

MinIndicatorBars == 50

NoData == [ok |-> FALSE, bars |-> << >>]
Frame(bars) == [ok |-> TRUE, bars |-> bars]

\* Variant: the whole frame instead of its tail.
tail_whole(bars, n) == bars

\* data.tail(n)
tail(bars, n) ==
    IF Len(bars) <= n THEN bars ELSE SubSeq(bars, Len(bars) - n + 1, Len(bars))

----------------------------------------------------------------------------
(* analyze_trend                                                           *)

NoCounts == [higher_highs |-> 0, lower_highs |-> 0, higher_lows |-> 0, lower_lows |-> 0]

\* One pass of the loop body for the pair (i-1, i): ties count on neither
\* side.
CountStep(recent, i, c) ==
    [higher_highs |-> c.higher_highs
                        + (IF recent[i].High > recent[i-1].High THEN 1 ELSE 0),
     lower_highs |-> c.lower_highs
                        + (IF recent[i].High < recent[i-1].High THEN 1 ELSE 0),
     higher_lows |-> c.higher_lows
                        + (IF recent[i].Low > recent[i-1].Low THEN 1 ELSE 0),
     lower_lows |-> c.lower_lows
                        + (IF recent[i].Low < recent[i-1].Low THEN 1 ELSE 0)]

\* for i in range(1, len(highs)): sequences here start at 1, so i runs from
\* 2 to Len(recent).
RECURSIVE CountLoop(_, _, _)
CountLoop(recent, i, c) ==
    IF i > Len(recent) THEN c ELSE CountLoop(recent, i + 1, CountStep(recent, i, c))

analyze_trend(d) ==
    IF Len(d.bars) < MinTrendBars THEN EmptyDict
    ELSE LET recent_data == tail(d.bars, TrendWindow)
             c == CountLoop(recent_data, 2, NoCounts)
         IN  [k \in {"higher_highs", "lower_highs", "higher_lows", "lower_lows",
                     "trend_strength"} |->
                CASE k = "higher_highs" -> Num(c.higher_highs)
                  [] k = "lower_highs" -> Num(c.lower_highs)
                  [] k = "higher_lows" -> Num(c.higher_lows)
                  [] k = "lower_lows" -> Num(c.lower_lows)
                  [] k = "trend_strength" ->
                        Div(Num(c.higher_highs + c.higher_lows
                                    - c.lower_highs - c.lower_lows),
                            Num(TrendDenominator))]

----------------------------------------------------------------------------
(* calculate_indicators                                                    *)

(* TA-Lib is an external library.  Its results are inputs of the model:    *)
(* lib holds the last element of each array it returns, len the length of  *)
(* those arrays (TA-Lib returns arrays as long as its input), and raises   *)
(* says that a call of the try block raised (a frame without the column, a *)
(* dtype TA-Lib rejects).                                                  *)

NoLib ==
    [raises |-> FALSE, len |-> 0, rsi |-> Num(0), sma_20 |-> Num(0),
     sma_50 |-> Num(0), macd |-> Num(0), macd_signal |-> Num(0),
     macd_hist |-> Num(0), bb_upper |-> Num(0), bb_middle |-> Num(0),
     bb_lower |-> Num(0)]

BandKeys == {"bb_upper", "bb_middle", "bb_lower"}

IndicatorKeys ==
    {"rsi", "sma_20", "sma_50", "macd", "macd_signal", "macd_hist", "bb_position"}
        \cup BandKeys

LastClose(d) == Num(d.bars[Len(d.bars)].Close)

\* (close_prices[-1] - bb_lower[-1]) / (bb_upper[-1] - bb_lower[-1])
bb_position(close, upper, lower) == Div(Sub(close, lower), Sub(upper, lower))

calculate_indicators(d, l) ==
    IF Len(d.bars) < MinIndicatorBars THEN EmptyDict
    ELSE IF l.raises THEN EmptyDict
    ELSE LET bands == l.len > 0
         IN  [k \in (IF bands THEN IndicatorKeys ELSE IndicatorKeys \ BandKeys) |->
                CASE k = "rsi" -> IF l.len > 0 THEN l.rsi ELSE Num(50)
                  [] k = "sma_20" -> IF l.len > 0 THEN l.sma_20 ELSE Num(0)
                  [] k = "sma_50" -> IF l.len > 0 THEN l.sma_50 ELSE Num(0)
                  [] k = "macd" -> IF l.len > 0 THEN l.macd ELSE Num(0)
                  [] k = "macd_signal" -> IF l.len > 0 THEN l.macd_signal ELSE Num(0)
                  [] k = "macd_hist" -> IF l.len > 0 THEN l.macd_hist ELSE Num(0)
                  [] k = "bb_upper" -> l.bb_upper
                  [] k = "bb_middle" -> l.bb_middle
                  [] k = "bb_lower" -> l.bb_lower
                  [] k = "bb_position" ->
                        IF bands THEN bb_position(LastClose(d), l.bb_upper, l.bb_lower)
                        ELSE Rat(1, 2)]

----------------------------------------------------------------------------
(* Inputs of the fusion engine: each key is absent or holds one of a few   *)
(* values around the thresholds of its rule, nan, or a value that cannot   *)
(* be ordered.                                                             *)

MaxPrice == 2

Absent == [kind |-> "absent", num |-> 0, den |-> 1]

PriceInputs == {Num(p) : p \in 0..MaxPrice} \cup {None, Absent}
RsiInputs == {Num(29), Num(30), Num(70), Num(71), NaN, None, Absent}
MacdInputs == {Num(-1), Num(0), Num(1), None, Absent}
BbInputs ==
    {Rat(19, 100), Rat(2, 10), Rat(8, 10), Rat(81, 100), NaN, PosInf, None, Absent}
TrendInputs ==
    {Rat(n, TrendDenominator) : n \in {-4, -3, 3, 4}} \cup {None, Absent}

\* The dictionary holding the keys of f that are not absent.
MakeDict(f) == [k \in {x \in DOMAIN f : f[x].kind # "absent"} |-> f[k]]

InitFusion ==
    /\ pc = "call"
    /\ metal = "none"
    /\ data = NoData
    /\ lib = NoLib
    /\ \E r \in RsiInputs, s20 \in PriceInputs, s50 \in PriceInputs,
          cp \in PriceInputs, m \in MacdInputs, b \in BbInputs :
          indicators = MakeDict([k \in {"rsi", "sma_20", "sma_50", "current_price",
                                        "macd_hist", "bb_position"} |->
                                    CASE k = "rsi" -> r
                                      [] k = "sma_20" -> s20
                                      [] k = "sma_50" -> s50
                                      [] k = "current_price" -> cp
                                      [] k = "macd_hist" -> m
                                      [] k = "bb_position" -> b])
    /\ \E t \in TrendInputs :
          trend_analysis = MakeDict([k \in {"trend_strength"} |-> t])
    /\ signal = NoSignal
    /\ report = NoReport
    /\ calls = << >>

\* A call of get_signal_strength on the inputs.
CallGetSignalStrength ==
    /\ pc = "call"
    /\ signal' = get_signal_strength(indicators, trend_analysis)
    /\ calls' = Append(calls, "get_signal_strength")
    /\ pc' = "returned"
    /\ UNCHANGED <<metal, data, lib, indicators, trend_analysis, report>>

NextFusion == CallGetSignalStrength

SpecFusion == InitFusion /\ [][NextFusion]_vars

----------------------------------------------------------------------------
(* Price series.  A series of n bars is drawn from a family that reaches   *)
(* every combination of the four counts: in its last TrendWindow bars the  *)
(* highs rise uh times, then fall dh times, then stay flat, the lows rise  *)
(* ul times, fall dl times and stay flat, and the bars before that window  *)
(* rise (pre = 1), fall (pre = -1) or stay flat (pre = 0) towards it.  The *)
(* close is cl above the low.                                              *)

MaxExtra == 1

Min(a, b) == IF a < b THEN a ELSE b
Max(a, b) == IF a > b THEN a ELSE b

WindowStart(n) == IF n > TrendWindow THEN n - TrendWindow + 1 ELSE 1

Shape(n, i, pre, u, d) ==
    IF i < WindowStart(n) THEN pre * (i - WindowStart(n))
    ELSE LET j == i - WindowStart(n)
         IN  Min(j, u) - Max(0, Min(j - u, d))

Series(n, pre, uh, dh, ul, dl, cl) ==
    [i \in 1..n |->
        [High |-> 300 + Shape(n, i, pre, uh, dh),
         Low |-> 100 + Shape(n, i, pre, ul, dl),
         Close |-> 100 + Shape(n, i, pre, ul, dl) + cl]]

\* The numbers of rises and falls that fit in the window of a series of n
\* bars.
Runs(n) ==
    {r \in (0..(TrendWindow - 1)) \X (0..(TrendWindow - 1)) :
        r[1] + r[2] <= Max(Min(n, TrendWindow) - 1, 0)}

Prefixes(n) == IF n > TrendWindow THEN {-1, 0, 1} ELSE {0}

InitTrend ==
    /\ pc = "call"
    /\ metal = "none"
    /\ \E n \in 0..(MinTrendBars + MaxExtra) :
          \E pre \in Prefixes(n), h \in Runs(n), l \in Runs(n) :
             data = Frame(Series(n, pre, h[1], h[2], l[1], l[2], 0))
    /\ lib = NoLib
    /\ indicators = EmptyDict
    /\ trend_analysis = EmptyDict
    /\ signal = NoSignal
    /\ report = NoReport
    /\ calls = << >>

\* A call of analyze_trend on the series.
CallAnalyzeTrend ==
    /\ pc = "call"
    /\ trend_analysis' = analyze_trend(data)
    /\ calls' = Append(calls, "analyze_trend")
    /\ pc' = "returned"
    /\ UNCHANGED <<metal, data, lib, indicators, signal, report>>

NextTrend == CallAnalyzeTrend

SpecTrend == InitTrend /\ [][NextTrend]_vars

----------------------------------------------------------------------------
(* Results of TA-Lib on a series of at least one bar.  They are inputs,    *)
(* kept consistent with the series where the library's definition is       *)
(* plain: an average of k equal closes is that close, the bands of 20      *)
(* equal closes have zero width (upper = middle = lower), the middle band  *)
(* is the 20-period average, and macd_hist = macd - macd_signal.           *)

Flat(d, k) ==
    \A i \in Max(1, Len(d.bars) - k + 1)..Len(d.bars) :
        d.bars[i].Close = d.bars[Len(d.bars)].Close

LibRaises == [NoLib EXCEPT !.raises = TRUE]

LibResult(d, rsi, d20, d50, hist, w) ==
    LET c == d.bars[Len(d.bars)].Close
    IN  [raises |-> FALSE, len |-> Len(d.bars), rsi |-> Num(rsi),
         sma_20 |-> Num(c + d20), sma_50 |-> Num(c + d50),
         macd |-> Num(hist), macd_signal |-> Num(0), macd_hist |-> Num(hist),
         bb_upper |-> Num(c + d20 + w), bb_middle |-> Num(c + d20),
         bb_lower |-> Num(c + d20 - w)]

LibOutcomes(d) ==
    IF Len(d.bars) = 0 THEN {NoLib}
    ELSE {LibRaises} \cup
         {LibResult(d, x[1], x[2], x[3], x[4], x[5]) :
            x \in {y \in {25, 50, 75} \X (-1..1) \X (-2..2) \X (-1..1) \X (0..2) :
                     /\ Flat(d, 20) <=> y[5] = 0
                     /\ Flat(d, 20) => y[2] = 0
                     /\ Flat(d, 50) => y[3] = 0 /\ y[4] = 0}}

\* The series the indicator calculator is called on.
IndicatorSeries ==
    {Series(n, pre, 0, 0, l[1], l[2], cl) :
        n \in 0..(MinIndicatorBars + MaxExtra), pre \in {0, 1},
        l \in {<<0, 0>>, <<1, 0>>, <<0, 2>>}, cl \in 0..1}

InitIndicators ==
    /\ pc = "call"
    /\ metal = "none"
    /\ \E bars \in IndicatorSeries :
          /\ data = Frame(bars)
          /\ lib \in LibOutcomes(Frame(bars))
    /\ indicators = EmptyDict
    /\ trend_analysis = EmptyDict
    /\ signal = NoSignal
    /\ report = NoReport
    /\ calls = << >>

\* A call of calculate_indicators on the series.
CallCalculateIndicators ==
    /\ pc = "call"
    /\ indicators' = calculate_indicators(data, lib)
    /\ calls' = Append(calls, "calculate_indicators")
    /\ pc' = "returned"
    /\ UNCHANGED <<metal, data, lib, trend_analysis, signal, report>>

NextIndicators == CallCalculateIndicators

SpecIndicators == InitIndicators /\ [][NextIndicators]_vars

----------------------------------------------------------------------------
(* analyze_metal: one call per instrument and tick, in the steps at which  *)
(* it calls its collaborators.  calls lists the collaborators called so    *)
(* far in the current call.                                                *)

metals == {"gold", "silver"}

\* The series the provider may return.
FetchedSeries ==
    {Series(n, pre, h[1], h[2], l[1], l[2], cl) :
        n \in 0..(MinIndicatorBars + MaxExtra), pre \in {0, 1},
        h \in {<<0, 0>>, <<3, 0>>, <<15, 0>>},
        l \in {<<0, 0>>, <<0, 3>>, <<15, 0>>, <<0, 15>>}, cl \in 0..1}

\* Variant: an empty IndicatorSet is not noticed.
IndicatorsAlwaysUsable(ind) == FALSE

\* not indicators
IndicatorsUnusable(ind) == DOMAIN ind = {}

\* indicators['current_price'] = data['Close'].iloc[-1]
Inject(ind, d) ==
    [k \in DOMAIN ind \cup {"current_price"} |->
        IF k = "current_price" THEN LastClose(d) ELSE ind[k]]

Init ==
    /\ pc = "idle"
    /\ metal = "none"
    /\ data = NoData
    /\ lib = NoLib
    /\ indicators = EmptyDict
    /\ trend_analysis = EmptyDict
    /\ signal = NoSignal
    /\ report = NoReport
    /\ calls = << >>

\* analyze_metal(metal_name) up to the check of the fetched series.
Fetch ==
    /\ pc = "idle"
    /\ UNCHANGED <<lib, indicators, trend_analysis, signal>>
    /\ \E metal_name \in metals \cup {"copper"} :
          /\ metal' = metal_name
          /\ IF metal_name \notin metals
             THEN /\ data' = NoData
                  /\ calls' = << >>
                  /\ report' = Message("not_found")
                  /\ pc' = "done"
             ELSE /\ calls' = <<"get_metal_data">>
                  /\ \E d \in {NoData} \cup {Frame(b) : b \in FetchedSeries} :
                        /\ data' = d
                        /\ IF ~d.ok \/ Len(d.bars) < MinIndicatorBars
                           THEN report' = Message("no_data") /\ pc' = "done"
                           ELSE report' = NoReport /\ pc' = "indicators"

\* indicators = self.calculate_indicators(data), the check of its result and
\* the injection of current_price.
CalculateIndicators ==
    /\ pc = "indicators"
    /\ calls' = Append(calls, "calculate_indicators")
    /\ \E l \in LibOutcomes(data) :
          /\ lib' = l
          /\ LET ind == calculate_indicators(data, l)
             IN  IF IndicatorsUnusable(ind)
                 THEN /\ indicators' = ind
                      /\ report' = Message("indicator_error")
                      /\ pc' = "done"
                 ELSE /\ indicators' = Inject(ind, data)
                      /\ report' = report
                      /\ pc' = "trend"
    /\ UNCHANGED <<metal, data, trend_analysis, signal>>

\* trend_analysis = self.analyze_trend(data)
AnalyzeTrend ==
    /\ pc = "trend"
    /\ calls' = Append(calls, "analyze_trend")
    /\ trend_analysis' = analyze_trend(data)
    /\ pc' = "fuse"
    /\ UNCHANGED <<metal, data, lib, indicators, signal, report>>

\* ... = self.get_signal_strength(indicators, trend_analysis); an exception
\* leaving it would end analyze_metal in its own except branch.
Fuse ==
    /\ pc = "fuse"
    /\ calls' = Append(calls, "get_signal_strength")
    /\ LET s == get_signal_strength(indicators, trend_analysis)
       IN  /\ signal' = s
           /\ IF s.propagates
              THEN report' = Message("error") /\ pc' = "done"
              ELSE report' = report /\ pc' = "render"
    /\ UNCHANGED <<metal, data, lib, indicators, trend_analysis>>

\* The message with the direction, the action and the confidence.
Render ==
    /\ pc = "render"
    /\ report' = [kind |-> "analysis",
                  fields |-> [k \in {"market_direction", "action", "confidence"} |->
                                 CASE k = "market_direction" -> signal.market_direction
                                   [] k = "action" -> signal.action
                                   [] k = "confidence" -> signal.confidence]]
    /\ pc' = "done"
    /\ UNCHANGED <<metal, data, lib, indicators, trend_analysis, signal, calls>>

\* analyze_metal returns its message to run_analysis, which sends it and
\* calls analyze_metal again (the next instrument, the next tick): the
\* locals of the finished call are gone.
Return ==
    /\ pc = "done"
    /\ pc' = "idle"
    /\ metal' = "none"
    /\ data' = NoData
    /\ lib' = NoLib
    /\ indicators' = EmptyDict
    /\ trend_analysis' = EmptyDict
    /\ signal' = NoSignal
    /\ report' = NoReport
    /\ calls' = << >>

Next == Fetch \/ CalculateIndicators \/ AnalyzeTrend \/ Fuse \/ Render \/ Return

Spec == Init /\ [][Next]_vars

----------------------------------------------------------------------------
(* Properties of get_signal_strength, checked under SpecFusion.            *)

Returned == pc = "returned"

\* The call returned a breakdown, that is, no rule raised.
Fused == Returned /\ DOMAIN signal.signals_detail = Classifiers

VotesFor(side) == Cardinality({c \in DOMAIN signal.signals_detail :
                                    signal.signals_detail[c] = side})

NonNeutral == VotesFor("buy") + VotesFor("sell")

\* C1: when get_signal_strength does not raise, the confidence depends only
\* on the number n of classifiers voting buy or sell, whatever the sides:
\* n = 5 gives 80, n = 4 gives 70, n = 3 gives 60, n <= 2 gives 50.
C1_ConfidenceByCount ==
    Fused =>
        /\ NonNeutral = 5 => signal.confidence = 80
        /\ NonNeutral = 4 => signal.confidence = 70
        /\ NonNeutral = 3 => signal.confidence = 60
        /\ NonNeutral <= 2 => signal.confidence = 50

\* A 3 buy / 2 sell split returned with confidence 80.
C1_Witness ==
    Fused /\ VotesFor("buy") = 3 /\ VotesFor("sell") = 2 /\ signal.confidence = 80

\* C2: when get_signal_strength does not raise, more buy than sell votes
\* give bullish/buy, more sell than buy votes give bearish/sell, and equal
\* numbers (0 = 0 included) give ranging/wait.
C2_DirectionByMajority ==
    Fused =>
        /\ VotesFor("buy") > VotesFor("sell") =>
              signal.market_direction = "bullish" /\ signal.action = "buy"
        /\ VotesFor("sell") > VotesFor("buy") =>
              signal.market_direction = "bearish" /\ signal.action = "sell"
        /\ VotesFor("buy") = VotesFor("sell") =>
              signal.market_direction = "ranging" /\ signal.action = "wait"

\* A tie of two against two returned as ranging/wait.
C2_Witness ==
    Fused /\ VotesFor("buy") = 2 /\ VotesFor("sell") = 2
          /\ signal.market_direction = "ranging" /\ signal.action = "wait"

\* The keys each classifier reads.
KeysOf(c) ==
    CASE c = "RSI" -> {"rsi"}
      [] c = "MA" -> {"sma_20", "sma_50", "current_price"}
      [] c = "MACD" -> {"macd_hist"}
      [] c = "Bollinger" -> {"bb_position"}
      [] c = "Trend" -> {"trend_strength"}

Present == DOMAIN indicators \cup DOMAIN trend_analysis

MissingOf(c) == KeysOf(c) \ Present

\* C3 as claimed: in a call that returns a breakdown, a classifier that
\* reads a missing key votes neutral, whatever the keys that are present.
C3_MissingKeyVotesNeutral ==
    Fused => \A c \in Classifiers :
                MissingOf(c) # {} => signal.signals_detail[c] = "neutral"

\* C3 amended: in a call that returns a breakdown, RSI, MACD, Bollinger and
\* Trend vote neutral when their key is missing, and MA votes neutral when
\* at least two of sma_20, sma_50 and current_price are missing.
C3_MissingKeyAmended ==
    Fused => \A c \in Classifiers :
                (MissingOf(c) # {} /\ (c = "MA" => Cardinality(MissingOf(c)) >= 2))
                    => signal.signals_detail[c] = "neutral"

\* Two of the MA keys are missing next to a positive price, the RSI key is
\* missing too, and both rules voted neutral while another rule did not.
C3_Witness ==
    /\ Fused
    /\ MissingOf("MA") = {"sma_20", "sma_50"}
    /\ indicators["current_price"] = Num(2)
    /\ MissingOf("RSI") = {"rsi"}
    /\ signal.signals_detail["MA"] = "neutral"
    /\ signal.signals_detail["RSI"] = "neutral"
    /\ signal.signals_detail["MACD"] = "buy"

WellFormed(sig) ==
    /\ sig.market_direction \in {"bullish", "bearish", "ranging"}
    /\ sig.action \in {"buy", "sell", "wait"}
    /\ sig.confidence \in {50, 60, 70, 80}
    /\ DOMAIN sig.signals_detail = Classifiers
    /\ \A c \in Classifiers : sig.signals_detail[c] \in {"buy", "sell", "neutral"}

\* C4 as claimed: every result of get_signal_strength, for any input, has a
\* direction in {bullish, bearish, ranging}, an action in {buy, sell, wait},
\* a confidence in {50, 60, 70, 80} and a vote in {buy, sell, neutral} for
\* each of the five indicator names.
C4_EveryResultWellFormed == Returned => WellFormed(signal)

\* C4 amended: every result of get_signal_strength is either of that shape
\* or the sentinel (unknown, 0, unknown, empty breakdown) of a call in which
\* a rule raised.
C4_WellFormedOrSentinel ==
    Returned => WellFormed(signal) \/ signal = Sentinel

\* A result of that shape with votes on both sides and a nan input.
C4_Witness ==
    /\ Returned
    /\ WellFormed(signal)
    /\ VotesFor("buy") >= 1
    /\ VotesFor("sell") >= 1
    /\ "bb_position" \in DOMAIN indicators
    /\ indicators["bb_position"] = NaN

\* A comparison of the rules has an operand that cannot be ordered: the
\* rules always compare rsi, macd_hist, bb_position, trend_strength, sma_20
\* and sma_50, and compare current_price once sma_20 and sma_50 differ.
ComparesNone ==
    \/ \E k \in {"rsi", "macd_hist", "bb_position", "sma_20", "sma_50"} :
          k \in DOMAIN indicators /\ IsNone(indicators[k])
    \/ "trend_strength" \in DOMAIN trend_analysis
          /\ IsNone(trend_analysis["trend_strength"])
    \/ /\ "current_price" \in DOMAIN indicators
       /\ IsNone(indicators["current_price"])
       /\ \A k \in {"sma_20", "sma_50"} :
             k \in DOMAIN indicators => ~IsNone(indicators[k])
       /\ ~EqV(Read(indicators, "sma_20"), Read(indicators, "sma_50"))

\* C5: an exception raised while the rules are evaluated is caught, the call
\* returns the sentinel (unknown, 0, unknown, empty breakdown), and no
\* exception leaves get_signal_strength.
C5_RaiseGivesSentinel ==
    Returned =>
        /\ ~signal.propagates
        /\ ComparesNone => signal = Sentinel

\* The only value that cannot be ordered is current_price, compared because
\* sma_20 and sma_50 differ, and the call returned the sentinel.
C5_Witness ==
    /\ Returned
    /\ ComparesNone
    /\ \A k \in DOMAIN indicators : IsNone(indicators[k]) <=> k = "current_price"
    /\ "current_price" \in DOMAIN indicators
    /\ \A k \in DOMAIN trend_analysis : ~IsNone(trend_analysis[k])
    /\ signal = Sentinel

\* C11: in every result that is not the sentinel, the counter behind the
\* confidence equals the number of buy votes plus the number of sell votes,
\* so an odd count never ties: when the action is wait (direction ranging)
\* the confidence is 50 or 70, and when the confidence is 80 or 60 the
\* action is buy or sell.
C11_OddCountNeverTies ==
    Fused =>
        /\ confirmation_count(signal.signals_detail)
              = VotesFor("buy") + VotesFor("sell")
        /\ signal.confidence = confidence(VotesFor("buy") + VotesFor("sell"))
        /\ signal.action = "wait" =>
              signal.market_direction = "ranging" /\ signal.confidence \in {50, 70}
        /\ signal.market_direction = "ranging" => signal.action = "wait"
        /\ signal.confidence \in {60, 80} => signal.action \in {"buy", "sell"}

\* Four rules voted, two on each side, and the call returned wait with
\* confidence 70.
C11_Witness ==
    /\ Fused
    /\ NonNeutral = 4
    /\ signal.action = "wait"
    /\ signal.confidence = 70

----------------------------------------------------------------------------
(* Properties of calculate_indicators, checked under SpecIndicators.       *)

\* C6: for every series of fewer than 50 bars (none included)
\* calculate_indicators returns an IndicatorSet with no key at all.
C6_ShortSeriesNoIndicators ==
    (Returned /\ Len(data.bars) < 50) => DOMAIN indicators = {}

\* A series of 49 bars was answered with the empty set.
C6_Witness ==
    Returned /\ Len(data.bars) = 49 /\ ~lib.raises /\ DOMAIN indicators = {}

\* C7: when the last upper band equals the last lower band on a series of
\* at least 50 bars, calculate_indicators returns bb_position = 0.5.
C7_ZeroWidthGivesHalf ==
    (Returned /\ Len(data.bars) >= 50 /\ ~lib.raises
        /\ EqV(lib.bb_upper, lib.bb_lower))
    => /\ "bb_position" \in DOMAIN indicators
       /\ EqV(indicators["bb_position"], Rat(1, 2))

----------------------------------------------------------------------------
(* Properties of analyze_trend, checked under SpecTrend.                   *)

\* The transitions among the last 16 bars, counted from the series itself.
LastPairs == (Len(data.bars) - 14)..Len(data.bars)

Rises(field) ==
    Cardinality({i \in LastPairs : data.bars[i][field] > data.bars[i-1][field]})

Falls(field) ==
    Cardinality({i \in LastPairs : data.bars[i][field] < data.bars[i-1][field]})

Ties(field) ==
    Cardinality({i \in LastPairs : data.bars[i][field] = data.bars[i-1][field]})

\* C8: for every series of at least 20 bars analyze_trend counts the strict
\* rises and falls of the highs and of the lows among exactly the last 16
\* bars, ties on neither side, so each count is at most 15, and
\* trend_strength = (higher_highs + higher_lows - lower_highs - lower_lows)
\* / 30 lies in [-1, 1].
C8_TrendOverLastSixteen ==
    (Returned /\ Len(data.bars) >= 20) =>
        /\ DOMAIN trend_analysis = {"higher_highs", "lower_highs", "higher_lows",
                                    "lower_lows", "trend_strength"}
        /\ trend_analysis["higher_highs"] = Num(Rises("High"))
        /\ trend_analysis["lower_highs"] = Num(Falls("High"))
        /\ trend_analysis["higher_lows"] = Num(Rises("Low"))
        /\ trend_analysis["lower_lows"] = Num(Falls("Low"))
        /\ Rises("High") + Falls("High") + Ties("High") = 15
        /\ Rises("Low") + Falls("Low") + Ties("Low") = 15
        /\ \A k \in {"higher_highs", "lower_highs", "higher_lows", "lower_lows"} :
              ~Gt(trend_analysis[k], Num(15))
        /\ EqV(trend_analysis["trend_strength"],
               Rat(Rises("High") + Rises("Low") - Falls("High") - Falls("Low"), 30))
        /\ ~Lt(trend_analysis["trend_strength"], Num(-1))
        /\ ~Gt(trend_analysis["trend_strength"], Num(1))

\* A series of 21 bars whose first bars rise towards the window and whose
\* last 16 bars rise at every step returned trend_strength = 1.
C8_Witness ==
    /\ Returned
    /\ Len(data.bars) = 21
    /\ data.bars[2].High > data.bars[1].High
    /\ "trend_strength" \in DOMAIN trend_analysis
    /\ EqV(trend_analysis["trend_strength"], Num(1))

\* C9: for every series of fewer than 20 bars analyze_trend returns an empty
\* TrendShape, with no count and no trend_strength.
C9_ShortSeriesNoTrend ==
    (Returned /\ Len(data.bars) < 20) => DOMAIN trend_analysis = {}

\* A series of 19 bars with rising highs was answered with the empty shape.
C9_Witness ==
    /\ Returned
    /\ Len(data.bars) = 19
    /\ data.bars[19].High > data.bars[18].High
    /\ DOMAIN trend_analysis = {}

----------------------------------------------------------------------------
(* Properties of analyze_metal, checked under Spec.                        *)

Called(f) == \E i \in 1..Len(calls) : calls[i] = f

FetchFailed == Called("get_metal_data") /\ ~data.ok

TooShort == Called("get_metal_data") /\ data.ok /\ Len(data.bars) < 50

\* calculate_indicators returned without one of the keys it computes.
EmptyOrPartial == Called("calculate_indicators") /\ ~(IndicatorKeys \subseteq DOMAIN indicators)

\* C10: in analyze_metal, when the fetch fails, the series has fewer than 50
\* bars, or calculate_indicators returns an empty or partial IndicatorSet,
\* the call is over: analyze_trend and get_signal_strength are not called
\* after that and the report holds no direction, action or confidence.
C10_AbortOnInsufficientData ==
    (FetchFailed \/ TooShort \/ EmptyOrPartial) =>
        /\ pc = "done"
        /\ ~Called("analyze_trend")
        /\ ~Called("get_signal_strength")
        /\ report.kind \in {"no_data", "indicator_error"}
        /\ DOMAIN report.fields = {}

\* A series of at least 50 bars on which calculate_indicators returned the
\* empty set, and the call ended with the indicator error message.
C10_Witness ==
    /\ pc = "done"
    /\ data.ok
    /\ Len(data.bars) >= 50
    /\ Called("calculate_indicators")
    /\ DOMAIN indicators = {}
    /\ report.kind = "indicator_error"

====
